---- MODULE Spec2Model ----
(***************************************************************************)
(* A model of the gosym command (exp/cmd/gosym/gosym.go): the kind mask,   *)
(* the package cache behind ctxt.importer, the symLine text format and its *)
(* parser, and the syntax-tree walk of visitExprs with the visitPrint      *)
(* callback.                                                               *)
(*                                                                         *)
(* Go strings are modelled as sequences of one-character strings, so that  *)
(* splitting, formatting and regular-expression matching are computed      *)
(* character by character.                                                 *)
(***************************************************************************)
EXTENDS Integers, Sequences, FiniteSets, TLC

VARIABLES
    kindTokens,   \* the token list the argument string was written from
    kindsArg,     \* parseKindMask: the argument string (the -k flag's value)
    kindsRes,     \* parseKindMask: the (mask, err) pair returned, or NotYet
    mu,           \* context.mu: 0 when free, else the caller holding it
    pkgCache,     \* context.pkgCache: a function from the paths stored to packages
    callerPc,     \* per caller of ctxt.importer: its position in the closure
    callerPath,   \* per caller: the path argument
    callerPkg,    \* per caller: the local variable pkg
    callerRet,    \* per caller: the sequence of <<path, value>> it has been returned
    importCalls,  \* per path: how many times types.DefaultImporter was invoked
    nextPkg,      \* identity of the next package types.DefaultImporter allocates
    callsMade,    \* how many calls of ctxt.importer have been made
    symIn,        \* the symLine value handed to String
    lineText,     \* the text String returned, or the text handed to parseSymLine
    parseRes,     \* what parseSymLine did: a record, an error or a panic
    linePc,       \* "value", "text", "parsed": how far the line has travelled
    verbose,      \* the -v flag
    printType,    \* the -t flag
    all,          \* the -a flag
    visitf,       \* visitExprs: the callback, main's visitor or any other one
    files,        \* pkg.Files: the syntax trees main walks, in order
    fileIdx,      \* main: how many of the files visitExprs was called for
    walkPc,       \* "main", "walk", "exit" or "panic"
    ok,           \* visitExprs: the local variable ok
    stack,        \* visitExprs: what is left to do of the calls of ast.Walk in progress
    nextObj,      \* identity of the next object ast.NewObj allocates
    resolved,     \* the expressions handed to types.ExprType by visitExpr, in order
    calls,        \* the invocations of the callback, in order
    stdout,       \* the lines printed by fmt.Println
    logged        \* the messages printed by log.Printf

cacheVars == <<mu, pkgCache, callerPc, callerPath, callerPkg, callerRet, importCalls, nextPkg, callsMade>>
kindVars == <<kindTokens, kindsArg, kindsRes>>
lineVars == <<symIn, lineText, parseRes, linePc>>
walkVars == <<verbose, printType, all, visitf, files, fileIdx, walkPc, ok, stack, nextObj,
              resolved, calls, stdout, logged>>
vars == <<kindVars, cacheVars, lineVars, walkVars>>
notCacheVars == <<kindVars, lineVars, walkVars>>
notKindVars == <<cacheVars, lineVars, walkVars>>
notLineVars == <<kindVars, cacheVars, walkVars>>
notWalkVars == <<kindVars, cacheVars, lineVars>>

(***************************************************************************)
(* Bounds of the model.                                                    *)
(***************************************************************************)
MaxTokens == 3
NumCallers == 2
MaxCalls == 3
MaxFiles == 2
MaxDecls == 2
MaxTotal == 2

(***************************************************************************)
(* Strings.                                                                *)
(***************************************************************************)
RECURSIVE Concat(_)
Concat(ss) == IF ss = <<>> THEN <<>> ELSE Head(ss) \o Concat(Tail(ss))

Max(S) == CHOOSE m \in S : \A k \in S : k <= m
Min(S) == CHOOSE m \in S : \A k \in S : m <= k

\* s[i..j-1]: the Go slice expression s[i-1:j-1] on a 1-based sequence.
Slice(s, i, j) == SubSeq(s, i, j - 1)

StrConst == <<"c", "o", "n", "s", "t">>
StrType == <<"t", "y", "p", "e">>
StrVar == <<"v", "a", "r">>
StrFunc == <<"f", "u", "n", "c">>
StrLocal == <<"l", "o", "c", "a", "l">>
StrUniverse == <<"u", "n", "i", "v", "e", "r", "s", "e">>

\* The nil error and the nil *ast.Package.
NoErr == [msg |-> "nil", arg |-> <<>>]
NilPkg == [path |-> "nil", id |-> 0]

(***************************************************************************)
(* ast.ObjKind and the objKinds table.                                     *)
(***************************************************************************)
Pkg == 1
Con == 2
Typ == 3
Var == 4
Fun == 5

objKinds == [k \in {StrConst, StrType, StrVar, StrFunc} |->
               IF k = StrConst THEN Con
               ELSE IF k = StrType THEN Typ
               ELSE IF k = StrVar THEN Var
               ELSE Fun]

RECURSIVE Pow2(_)
Pow2(n) == IF n = 0 THEN 1 ELSE 2 * Pow2(n - 1)

\* (1 << c) & mask # 0
HasBit(mask, c) == (mask \div Pow2(c)) % 2 = 1

\* mask + 1 << c
OrBitAdd(mask, c) == mask + Pow2(c)

\* mask | 1 << c
OrBit(mask, c) == IF HasBit(mask, c) THEN mask ELSE mask + Pow2(c)

(***************************************************************************)
(* strings.Split(s, ","): the pieces of s between the separators; a string *)
(* without separator, the empty one included, is one piece.                *)
(***************************************************************************)
RECURSIVE SplitFrom(_, _, _)
SplitFrom(s, sep, cur) ==
    IF s = <<>> THEN <<cur>>
    ELSE IF Head(s) = sep THEN <<cur>> \o SplitFrom(Tail(s), sep, <<>>)
    ELSE SplitFrom(Tail(s), sep, Append(cur, Head(s)))

Split(s, sep) == SplitFrom(s, sep, <<>>)

RECURSIVE Join(_, _)
Join(ss, sep) ==
    IF ss = <<>> THEN <<>>
    ELSE IF Len(ss) = 1 THEN ss[1]
    ELSE ss[1] \o <<sep>> \o Join(Tail(ss), sep)

(***************************************************************************)
(* parseKindMask.                                                          *)
(***************************************************************************)
KindErr(k) == [msg |-> "unknown type kind", arg |-> k]

\* The loop over ks from index i with the mask accumulated so far.
RECURSIVE KindLoopSkipUnknown(_, _, _)
KindLoopSkipUnknown(ks, i, mask) ==
    IF i > Len(ks) THEN [mask |-> mask, err |-> NoErr]
    ELSE IF ks[i] \in DOMAIN objKinds
         THEN KindLoopSkipUnknown(ks, i + 1, OrBit(mask, objKinds[ks[i]]))
         ELSE KindLoopSkipUnknown(ks, i + 1, mask)

RECURSIVE KindLoop(_, _, _)
KindLoop(ks, i, mask) ==
    IF i > Len(ks) THEN [mask |-> mask, err |-> NoErr]
    ELSE IF ks[i] \in DOMAIN objKinds
         THEN KindLoop(ks, i + 1, OrBit(mask, objKinds[ks[i]]))
         ELSE [mask |-> 0, err |-> KindErr(ks[i])]

parseKindMask(kinds) == KindLoop(Split(kinds, ","), 1, 0)

\* The tokens the argument strings are built from: the four kinds, the empty
\* token, an unknown word and a kind in the wrong case.
KindTokens == {StrConst, StrType, StrVar, StrFunc, <<>>, <<"x">>, <<"F", "u", "n", "c">>}

TokenLists == UNION {[1..n -> KindTokens] : n \in 1..MaxTokens}

\* allKinds: the keys of objKinds joined by commas, in the order the range
\* over the map yields them, which is any order.
KindOrders ==
    {ks \in [1..Cardinality(DOMAIN objKinds) -> DOMAIN objKinds] :
        \A i, j \in DOMAIN ks : ks[i] = ks[j] => i = j}

allKinds == {Join(ks, ",") : ks \in KindOrders}

NotYet == [mask |-> 0, err |-> [msg |-> "not called", arg |-> <<>>]]

InitKinds ==
    /\ kindTokens \in TokenLists \cup KindOrders
    /\ kindsArg = Join(kindTokens, ",")
    /\ kindsRes = NotYet

CallParseKindMask ==
    /\ kindsRes = NotYet
    /\ kindsRes' = parseKindMask(kindsArg)
    /\ UNCHANGED <<kindTokens, kindsArg, notKindVars>>

(***************************************************************************)
(* The package cache: newContext and the ctxt.importer closure.            *)
(***************************************************************************)
Callers == 1..NumCallers
Paths == {"p", "q"}

\* ctxt.pkgCache[path]: nil for a path that is absent.
CacheGet(path) == IF path \in DOMAIN pkgCache THEN pkgCache[path] ELSE NilPkg

\* ctxt.pkgCache[path] = pkg
CachePut(path, pkg) ==
    [q \in (DOMAIN pkgCache) \cup {path} |-> IF q = path THEN pkg ELSE pkgCache[q]]

InitCache ==
    /\ mu = 0
    /\ pkgCache = <<>>
    /\ callerPc = [c \in Callers |-> "idle"]
    /\ callerPath = [c \in Callers |-> "p"]
    /\ callerPkg = [c \in Callers |-> NilPkg]
    /\ callerRet = [c \in Callers |-> <<>>]
    /\ importCalls = [p \in Paths |-> 0]
    /\ nextPkg = 1
    /\ callsMade = 0

\* A caller invokes ctxt.importer(path).
CallImporter(c) ==
    /\ callerPc[c] = "idle"
    /\ callsMade < MaxCalls
    /\ callsMade' = callsMade + 1
    /\ \E path \in Paths : callerPath' = [callerPath EXCEPT ![c] = path]
    /\ callerPc' = [callerPc EXCEPT ![c] = "lock"]
    /\ callerPkg' = [callerPkg EXCEPT ![c] = NilPkg]
    /\ UNCHANGED <<mu, pkgCache, callerRet, importCalls, nextPkg, notCacheVars>>

\* ctxt.mu.Lock() entered without waiting for the holder.
LockNoWait(c) ==
    /\ callerPc[c] = "lock"
    /\ mu' = c
    /\ callerPc' = [callerPc EXCEPT ![c] = "check"]
    /\ UNCHANGED <<pkgCache, callerPath, callerPkg, callerRet, importCalls, nextPkg, callsMade, notCacheVars>>

\* ctxt.mu.Lock()
Lock(c) ==
    /\ callerPc[c] = "lock"
    /\ mu = 0
    /\ mu' = c
    /\ callerPc' = [callerPc EXCEPT ![c] = "check"]
    /\ UNCHANGED <<pkgCache, callerPath, callerPkg, callerRet, importCalls, nextPkg, callsMade, notCacheVars>>

\* if pkg := ctxt.pkgCache[path]; pkg != nil { return pkg }
CheckCache(c) ==
    /\ callerPc[c] = "check"
    /\ LET pkg == CacheGet(callerPath[c]) IN
         IF pkg # NilPkg
         THEN /\ callerPkg' = [callerPkg EXCEPT ![c] = pkg]
              /\ callerPc' = [callerPc EXCEPT ![c] = "unlock"]
         ELSE /\ callerPc' = [callerPc EXCEPT ![c] = "import"]
              /\ UNCHANGED callerPkg
    /\ UNCHANGED <<mu, pkgCache, callerPath, callerRet, importCalls, nextPkg, callsMade, notCacheVars>>

\* The call of types.DefaultImporter(path) starts.
ImportStart(c) ==
    /\ callerPc[c] = "import"
    /\ callerPc' = [callerPc EXCEPT ![c] = "importing"]
    /\ importCalls' = [importCalls EXCEPT ![callerPath[c]] = @ + 1]
    /\ UNCHANGED <<mu, pkgCache, callerPath, callerPkg, callerRet, nextPkg, callsMade, notCacheVars>>

\* types.DefaultImporter(path) returns: a newly parsed package, or nil when
\* the package cannot be found or parsed.
ImportReturn(c) ==
    /\ callerPc[c] = "importing"
    /\ \/ /\ callerPkg' = [callerPkg EXCEPT ![c] = [path |-> callerPath[c], id |-> nextPkg]]
          /\ nextPkg' = nextPkg + 1
       \/ /\ callerPkg' = [callerPkg EXCEPT ![c] = NilPkg]
          /\ UNCHANGED nextPkg
    /\ callerPc' = [callerPc EXCEPT ![c] = "store"]
    /\ UNCHANGED <<mu, pkgCache, callerPath, callerRet, importCalls, callsMade, notCacheVars>>

\* ctxt.pkgCache[path] = pkg; return pkg
StoreCache(c) ==
    /\ callerPc[c] = "store"
    /\ pkgCache' = CachePut(callerPath[c], callerPkg[c])
    /\ callerPc' = [callerPc EXCEPT ![c] = "unlock"]
    /\ UNCHANGED <<mu, callerPath, callerPkg, callerRet, importCalls, nextPkg, callsMade, notCacheVars>>

\* A return to the caller that leaves the mutex held.
UnlockNever(c) ==
    /\ callerPc[c] = "unlock"
    /\ callerRet' = [callerRet EXCEPT ![c] = Append(@, <<callerPath[c], callerPkg[c]>>)]
    /\ callerPc' = [callerPc EXCEPT ![c] = "idle"]
    /\ UNCHANGED <<mu, pkgCache, callerPath, callerPkg, importCalls, nextPkg, callsMade, notCacheVars>>

\* The deferred ctxt.mu.Unlock(), and the return to the caller.
Unlock(c) ==
    /\ callerPc[c] = "unlock"
    /\ mu' = 0
    /\ callerRet' = [callerRet EXCEPT ![c] = Append(@, <<callerPath[c], callerPkg[c]>>)]
    /\ callerPc' = [callerPc EXCEPT ![c] = "idle"]
    /\ UNCHANGED <<pkgCache, callerPath, callerPkg, importCalls, nextPkg, callsMade, notCacheVars>>

NextCache ==
    \E c \in Callers :
        \/ CallImporter(c)
        \/ Lock(c)
        \/ CheckCache(c)
        \/ ImportStart(c)
        \/ ImportReturn(c)
        \/ StoreCache(c)
        \/ Unlock(c)


(***************************************************************************)
(* Characters.                                                             *)
(***************************************************************************)
\* The class \s of the regexp package: [\t\n\f\r ].
IsSpace(c) == c \in {" ", "\t", "\n", "\f", "\r"}

\* The class \d: [0-9].
Digits == <<"0", "1", "2", "3", "4", "5", "6", "7", "8", "9">>
IsDigit(c) == \E d \in 1..10 : Digits[d] = c

\* The character classes of linePat: \s, \d, [^:], [^ ], [^\s], [^\s+], and
\* `.`, any character but the line feed.
InClass(class, c) ==
    CASE class = "\\s" -> IsSpace(c)
      [] class = "\\d" -> IsDigit(c)
      [] class = "[^:]" -> c # ":"
      [] class = "[^ ]" -> c # " "
      [] class = "[^\\s]" -> ~IsSpace(c)
      [] class = "[^\\s+]" -> ~IsSpace(c) /\ c # "+"
      [] class = "." -> c # "\n"

\* The end (exclusive) of the longest run of characters of a class from i.
RECURSIVE RunEnd(_, _, _)
RunEnd(s, i, class) ==
    IF i <= Len(s) /\ InClass(class, s[i]) THEN RunEnd(s, i + 1, class) ELSE i

(***************************************************************************)
(* fmt and strconv.                                                        *)
(***************************************************************************)
\* The verb %d, and strconv.Itoa, on a number that is not negative.
RECURSIVE Itoa(_)
Itoa(n) == IF n < 10 THEN <<Digits[n + 1]>>
           ELSE Itoa(n \div 10) \o <<Digits[(n % 10) + 1]>>

DigitValue(c) == (CHOOSE d \in 1..10 : Digits[d] = c) - 1

RECURSIVE StripZeros(_)
StripZeros(s) == IF Len(s) > 1 /\ Head(s) = "0" THEN StripZeros(Tail(s)) ELSE s

\* The decimal text of the largest int (64 bits).
MaxIntText == <<"9", "2", "2", "3", "3", "7", "2", "0", "3", "6",
                "8", "5", "4", "7", "7", "5", "8", "0", "7">>

\* a <= b for two digit strings of one length.
RECURSIVE DigitsLeq(_, _)
DigitsLeq(a, b) ==
    IF a = <<>> THEN TRUE
    ELSE IF DigitValue(Head(a)) < DigitValue(Head(b)) THEN TRUE
    ELSE IF DigitValue(Head(a)) > DigitValue(Head(b)) THEN FALSE
    ELSE DigitsLeq(Tail(a), Tail(b))

\* strconv.Atoi returns no error on a string of digits: the value fits an int.
AtoiFits(s) ==
    LET t == StripZeros(s) IN
        \/ Len(t) < Len(MaxIntText)
        \/ Len(t) = Len(MaxIntText) /\ DigitsLeq(t, MaxIntText)

RECURSIVE AtoiValue(_, _)
AtoiValue(s, acc) ==
    IF s = <<>> THEN acc ELSE AtoiValue(Tail(s), 10 * acc + DigitValue(Head(s)))

\* fmt.Sprintf on a format whose verbs are all %v or %s, the arguments given by
\* their text.
RECURSIVE Sprintf(_, _)
Sprintf(format, args) ==
    IF format = <<>> THEN <<>>
    ELSE IF Head(format) = "%"
         THEN Head(args) \o Sprintf(Tail(Tail(format)), Tail(args))
         ELSE <<Head(format)>> \o Sprintf(Tail(format), args)

\* token.Position.String
PositionString(pos) ==
    LET name == pos.Filename
        valid == pos.Line > 0
        s == IF valid
             THEN (IF name # <<>> THEN name \o <<":">> ELSE <<>>)
                  \o Itoa(pos.Line) \o <<":">> \o Itoa(pos.Column)
             ELSE name
    IN IF s = <<>> THEN <<"-">> ELSE s

\* ast.ObjKind.String for the four kinds of objKinds.
KindString(kind) == CHOOSE k \in DOMAIN objKinds : objKinds[k] = kind

(***************************************************************************)
(* symLine and symLine.String.                                             *)
(***************************************************************************)
\* symLine{}
ZeroSymLine ==
    [pos |-> [Filename |-> <<>>, Line |-> 0, Column |-> 0],
     exprPkg |-> <<>>, referPkg |-> <<>>, local |-> FALSE, kind |-> 0,
     definition |-> FALSE, expr |-> <<>>, exprType |-> <<>>]

\* "%v: %s %s %s %s%s%s%s"
StringFormat ==
    <<"%", "v", ":", " ", "%", "s", " ", "%", "s", " ", "%", "s", " ",
      "%", "s", "%", "s", "%", "s", "%", "s">>

\* The format with the local marker before the expression text and nothing
\* between the expression text and the kind: "%v: %s %s %s%s%s%s%s".
StringLocalFirst(l) ==
    LET local == IF l.local THEN StrLocal ELSE <<>>
        def == IF l.definition THEN <<"+">> ELSE <<>>
        exprType == IF Len(l.exprType) > 0 THEN <<" ">> \o l.exprType ELSE <<>>
    IN Sprintf(<<"%", "v", ":", " ", "%", "s", " ", "%", "s", " ",
                 "%", "s", "%", "s", "%", "s", "%", "s", "%", "s">>,
               <<PositionString(l.pos), l.exprPkg, l.referPkg, local, l.expr,
                 KindString(l.kind), def, exprType>>)

String(l) ==
    LET local == IF l.local THEN StrLocal ELSE <<>>
        def == IF l.definition THEN <<"+">> ELSE <<>>
        exprType == IF Len(l.exprType) > 0 THEN <<" ">> \o l.exprType ELSE <<>>
    IN Sprintf(StringFormat,
               <<PositionString(l.pos), l.exprPkg, l.referPkg, l.expr, local,
                 KindString(l.kind), def, exprType>>)

\* linePat:
\*   ^([^:]+):(\d+):(\d+):\s+([^ ]+)\s+([^\s]+)\s+(local)?([^\s+]+)(\+)?(\s+([^\s].*))?$
\* matched as the regexp package matches it: of the ways the whole string can
\* be matched, the one a backtracking matcher finds first (a repetition takes as
\* much as it can, an optional group is present when it can be).
\*
\* For each item of the pattern a set holds the indexes i such that the
\* pattern from that item to its end matches the string from i (the set of an
\* item is computed from the set of the item after it); the groups are then
\* read off from the left, each repetition ending at the largest index from
\* which the rest still matches. An unmatched group is the empty string.
NoMatch == [ok |-> FALSE, m |-> <<>>]
Matched(groups) == [ok |-> TRUE, m |-> groups]

Indexes(s) == 1..(Len(s) + 1)

\* The ends (exclusive) a repetition class+ starting at i can have, such that
\* the rest of the pattern, which matches from the indexes okRest, matches
\* from there.
Ends(s, i, class, okRest) ==
    {j \in (i + 1)..RunEnd(s, i, class) : j \in okRest}

\* (\s+([^\s].*))?$ : the index where group 10 starts, or 0 when the group
\* cannot be present.
TypeStart(s, i) ==
    LET J == {j \in (i + 1)..RunEnd(s, i, "\\s") :
                 /\ j <= Len(s)
                 /\ InClass("[^\\s]", s[j])
                 /\ RunEnd(s, j + 1, ".") = Len(s) + 1}
    IN IF J = {} THEN 0 ELSE Max(J)

OkType(s) == {i \in Indexes(s) : TypeStart(s, i) # 0 \/ i = Len(s) + 1}

\* (\+)?
PlusAt(s, i, okType) == i <= Len(s) /\ s[i] = "+" /\ (i + 1) \in okType

OkPlus(s, okType) == {i \in Indexes(s) : PlusAt(s, i, okType) \/ i \in okType}

\* ([^\s+]+)
OkKind(s, okPlus) == {i \in Indexes(s) : Ends(s, i, "[^\\s+]", okPlus) # {}}

\* (local)?
LocalAt(s, i, okKind) ==
    i + 4 <= Len(s) /\ Slice(s, i, i + 5) = StrLocal /\ (i + 5) \in okKind

OkLocal(s, okKind) == {i \in Indexes(s) : LocalAt(s, i, okKind) \/ i \in okKind}

\* \s+ between items
OkSpace(s, okRest) == {i \in Indexes(s) : Ends(s, i, "\\s", okRest) # {}}

\* ([^\s]+)
OkReferPkg(s, okSpace) == {i \in Indexes(s) : Ends(s, i, "[^\\s]", okSpace) # {}}

\* ([^ ]+)
OkExprPkg(s, okSpace) == {i \in Indexes(s) : Ends(s, i, "[^ ]", okSpace) # {}}

\* (\d+) followed by a colon: the ends j of the digits with s[j] = ":" and the
\* rest matching after the colon.
NumberEnds(s, i, okRest) ==
    {j \in (i + 1)..RunEnd(s, i, "\\d") : j <= Len(s) /\ s[j] = ":" /\ (j + 1) \in okRest}

OkNumber(s, okRest) == {i \in Indexes(s) : NumberEnds(s, i, okRest) # {}}

\* ^([^:]+): the ends of the file name.
FileEnds(s, okLine) ==
    {j \in 2..RunEnd(s, 1, "[^:]") : j <= Len(s) /\ s[j] = ":" /\ (j + 1) \in okLine}

\* The sets of indexes from which linePat matches from each of its items on,
\* computed from the last item to the first: each operator adds the set of
\* one item to the record t of the sets of the items after it.
WithType(s) == [type |-> OkType(s)]
WithPlus(s, t) == t @@ [plus |-> OkPlus(s, t.type)]
WithKind(s, t) == t @@ [kind |-> OkKind(s, t.plus)]
WithLocal(s, t) == t @@ [local |-> OkLocal(s, t.kind)]
WithSpace3(s, t) == t @@ [space3 |-> OkSpace(s, t.local)]
WithReferPkg(s, t) == t @@ [referPkg |-> OkReferPkg(s, t.space3)]
WithSpace2(s, t) == t @@ [space2 |-> OkSpace(s, t.referPkg)]
WithExprPkg(s, t) == t @@ [exprPkg |-> OkExprPkg(s, t.space2)]
WithSpace1(s, t) == t @@ [space1 |-> OkSpace(s, t.exprPkg)]
WithColumn(s, t) == t @@ [column |-> OkNumber(s, t.space1)]
WithLine(s, t) == t @@ [line |-> OkNumber(s, t.column)]

MatchSets(s) ==
    WithLine(s, WithColumn(s, WithSpace1(s, WithExprPkg(s, WithSpace2(s,
      WithReferPkg(s, WithSpace3(s, WithLocal(s, WithKind(s, WithPlus(s,
        WithType(s)))))))))))

\* The groups of a string that matches, read off from the left: each operator
\* is given where the items before its own ended and finds where its own ends.
\* Groups 9 and 10, from the index b9 after group 8 and the start of group 10.
GroupsFromType(s, b9, b10) ==
    <<IF b10 # 0 THEN Slice(s, b9, Len(s) + 1) ELSE <<>>,
      IF b10 # 0 THEN Slice(s, b10, Len(s) + 1) ELSE <<>> >>

\* Group 8, from the end e7 of group 7.
GroupsFromPlus(s, t, e7) ==
    IF PlusAt(s, e7, t.type)
    THEN << <<"+">> >> \o GroupsFromType(s, e7 + 1, TypeStart(s, e7 + 1))
    ELSE << <<>> >> \o GroupsFromType(s, e7, TypeStart(s, e7))

\* Group 7, from its start b7 and its end e7.
GroupsFromKindEnd(s, t, b7, e7) == <<Slice(s, b7, e7)>> \o GroupsFromPlus(s, t, e7)

GroupsFromKind(s, t, b7) ==
    GroupsFromKindEnd(s, t, b7, Max(Ends(s, b7, "[^\\s+]", t.plus)))

\* Group 6, from the index b6 after the third run of white space.
GroupsFromLocal(s, t, b6) ==
    IF LocalAt(s, b6, t.kind)
    THEN <<StrLocal>> \o GroupsFromKind(s, t, b6 + 5)
    ELSE << <<>> >> \o GroupsFromKind(s, t, b6)

\* Group 5, from its start b5 and its end e5.
GroupsFromReferPkgEnd(s, t, b5, e5) ==
    <<Slice(s, b5, e5)>> \o GroupsFromLocal(s, t, Max(Ends(s, e5, "\\s", t.local)))

GroupsFromReferPkg(s, t, b5) ==
    GroupsFromReferPkgEnd(s, t, b5, Max(Ends(s, b5, "[^\\s]", t.space3)))

\* Group 4, from its start b4 and its end e4.
GroupsFromExprPkgEnd(s, t, b4, e4) ==
    <<Slice(s, b4, e4)>> \o GroupsFromReferPkg(s, t, Max(Ends(s, e4, "\\s", t.referPkg)))

GroupsFromExprPkg(s, t, b4) ==
    GroupsFromExprPkgEnd(s, t, b4, Max(Ends(s, b4, "[^ ]", t.space2)))

\* Group 3, from its start b3 and its end e3 (the index of the colon).
GroupsFromColumnEnd(s, t, b3, e3) ==
    <<Slice(s, b3, e3)>> \o GroupsFromExprPkg(s, t, Max(Ends(s, e3 + 1, "\\s", t.exprPkg)))

GroupsFromColumn(s, t, b3) ==
    GroupsFromColumnEnd(s, t, b3, Max(NumberEnds(s, b3, t.space1)))

\* Group 2, from its start b2 and its end e2 (the index of the colon).
GroupsFromLineEnd(s, t, b2, e2) == <<Slice(s, b2, e2)>> \o GroupsFromColumn(s, t, e2 + 1)

GroupsFromLine(s, t, b2) ==
    GroupsFromLineEnd(s, t, b2, Max(NumberEnds(s, b2, t.column)))

\* Group 1, from its end e1 (the index of the colon).
Submatches(s, t, e1) == <<Slice(s, 1, e1)>> \o GroupsFromLine(s, t, e1 + 1)

FirstFileEnd(s, t, ends) ==
    IF ends = {} THEN NoMatch ELSE Matched(Submatches(s, t, Max(ends)))

MatchWith(s, t) == FirstFileEnd(s, t, FileEnds(s, t.line))

\* linePat.FindStringSubmatch(line): m[1] .. m[10] (m[0], the whole match, is
\* not used by the caller), or nil.
FindStringSubmatch(s) == MatchWith(s, MatchSets(s))

(***************************************************************************)
(* parseSymLine and atoi.                                                  *)
(***************************************************************************)
ParseOk(l) == [status |-> "ok", l |-> l, err |-> NoErr]
ParseErr(msg, arg) == [status |-> "error", l |-> ZeroSymLine, err |-> [msg |-> msg, arg |-> arg]]
\* panic("bad number") in atoi
ParsePanic == [status |-> "panic", l |-> ZeroSymLine, err |-> [msg |-> "bad number", arg |-> <<>>]]
NotParsed == [status |-> "none", l |-> ZeroSymLine, err |-> NoErr]

atoi(s) == AtoiValue(s, 0)

\* The symLine of the groups m.
LineOfGroups(m) ==
    [pos |-> [Filename |-> m[1], Line |-> atoi(m[2]), Column |-> atoi(m[3])],
     exprPkg |-> m[4],
     referPkg |-> m[5],
     local |-> (m[6] = StrLocal),
     kind |-> IF m[7] \in DOMAIN objKinds THEN objKinds[m[7]] ELSE 0,
     definition |-> (m[8] = <<"+">>),
     expr |-> <<>>,
     exprType |-> IF m[9] # <<>> THEN m[10] ELSE <<>>]

\* parseSymLine from `if m == nil` on, without the check of the kind token.
ParseSubmatchAnyKind(line, r) ==
    IF ~r.ok THEN ParseErr("invalid line", line)
    ELSE IF ~AtoiFits(r.m[2]) \/ ~AtoiFits(r.m[3]) THEN ParsePanic
    ELSE ParseOk(LineOfGroups(r.m))

\* parseSymLine from `if m == nil` on.
ParseSubmatch(line, r) ==
    IF ~r.ok THEN ParseErr("invalid line", line)
    ELSE IF ~AtoiFits(r.m[2]) \/ ~AtoiFits(r.m[3]) THEN ParsePanic
    ELSE IF r.m[7] \notin DOMAIN objKinds THEN ParseErr("invalid kind", r.m[7])
    ELSE ParseOk(LineOfGroups(r.m))

parseSymLine(line) == ParseSubmatch(line, FindStringSubmatch(line))

(***************************************************************************)
(* The symLine values and the texts the two functions are applied to.      *)
(***************************************************************************)
SymLines ==
    [pos : [Filename : {<<"a", ".", "g", "o">>}, Line : {7, 42}, Column : {1, 10}],
     exprPkg : {<<"p">>, <<"q", "/", "r">>},
     referPkg : {<<"q">>, StrUniverse},
     local : BOOLEAN,
     kind : {Con, Typ, Var, Fun},
     definition : BOOLEAN,
     expr : {<<"x">>, <<"T", ".", "f">>, StrFunc, <<"l", "o", "c", "a", "l", "v", "a", "r">>},
     exprType : {<<>>, <<"i", "n", "t">>, <<"f", "u", "n", "c", "(", "a", " ", "T", ")">>}]

\* Texts that no symLine prints: each part of a line in well-formed and in
\* malformed variants.
RawFiles == {<<"a">>, <<>>}
RawNumbers == {<<"7">>, <<"0", "1", "2">>, <<"x">>, <<>>, MaxIntText \o <<"0">>,
               <<"9", "2", "2", "3", "3", "7", "2", "0", "3", "6",
                 "8", "5", "4", "7", "7", "5", "8", "0", "8">>}
RawGaps == {<<" ">>, <<"\t", " ">>, <<>>}
RawPkgs == {<<"p">>, <<"p", "\t", "q">>}
RawTails ==
    {StrFunc, StrVar \o <<"+">>, StrLocal \o StrType, StrLocal, <<>>, <<"+">>,
     <<"x">> \o StrFunc, <<"x", " ">> \o StrFunc,
     StrConst \o <<" ", " ", "T", " ", "x">>, StrFunc \o <<"+", " ", "T">>,
     StrFunc \o <<" ">>, StrFunc \o <<" ", "T", "\n">>, StrFunc \o <<"+", "+">>,
     StrLocal \o <<"+">>, StrVar \o <<"\t", "T">>}

RawLines ==
    {f \o <<":">> \o n \o <<":", "3", ":">> \o g \o p \o <<" ", "q">> \o g \o t :
        f \in RawFiles, n \in RawNumbers, g \in RawGaps, p \in RawPkgs, t \in RawTails}
    \cup {<<"a", ":", "1", ":">> \o n \o <<":", " ", "p", " ", "q", " ">> \o StrFunc :
            n \in RawNumbers}
    \cup {<<>>, <<"a">>, <<":", ":", ":">>, <<"a", ":", "1", ":", "2">>}

IdleLine ==
    /\ symIn = ZeroSymLine
    /\ lineText = <<>>
    /\ parseRes = NotParsed
    /\ linePc = "idle"

InitLine ==
    /\ parseRes = NotParsed
    /\ \/ /\ linePc = "value"
          /\ symIn \in SymLines
          /\ lineText = <<>>
       \/ /\ linePc = "text"
          /\ symIn = ZeroSymLine
          /\ lineText \in RawLines

\* text := l.String()
CallString ==
    /\ linePc = "value"
    /\ lineText' = String(symIn)
    /\ linePc' = "printed"
    /\ UNCHANGED <<symIn, parseRes, notLineVars>>

\* l, err := parseSymLine(text)
CallParseSymLine ==
    /\ linePc \in {"printed", "text"}
    /\ parseRes' = parseSymLine(lineText)
    /\ linePc' = IF linePc = "printed" THEN "reparsed" ELSE "parsed"
    /\ UNCHANGED <<symIn, lineText, notLineVars>>

NextLine == CallString \/ CallParseSymLine

(***************************************************************************)
(* Objects, types and syntax-tree nodes.  An object is a record whose id   *)
(* stands for its address; a type is a kind and the node of its type       *)
(* expression; a node carries, in obj and typ, what types.ExprType answers *)
(* for it, and in kids its children in the order ast.Walk visits them.     *)
(***************************************************************************)
\* token.NoPos
NoPos == 0

\* A nil *ast.Object; Decl is the position of the declaration (NoPos when the
\* object has none), rel tells that Decl is still relative to the declaration
\* the node sits in.
NilObj == [id |-> 0, Name |-> <<>>, Kind |-> 0, Decl |-> NoPos, rel |-> FALSE]

\* ast.NewObj(kind, name), allocated at the address id.
NewObj(kind, name, id) == [id |-> id, Name |-> name, Kind |-> kind, Decl |-> NoPos, rel |-> FALSE]

Obj(id, name, kind, decl, rel) == [id |-> id, Name |-> name, Kind |-> kind, Decl |-> decl, rel |-> rel]

\* parser.Universe: the predeclared objects, by name.
Universe ==
    [name \in {<<"i", "n", "t">>, <<"l", "e", "n">>} |->
        IF name = <<"i", "n", "t">> THEN Obj(1, name, Typ, NoPos, FALSE)
        ELSE Obj(2, name, Fun, NoPos, FALSE)]

\* parser.Universe.Lookup(name)
UniverseLookup(name) == IF name \in DOMAIN Universe THEN Universe[name] ELSE NilObj

\* types.DeclPos(obj)
DeclPos(obj) == obj.Decl

\* A nil ast.Node, and the node of a type expression: name or *name.
NilNode == [nil |-> TRUE, star |-> FALSE, name |-> <<>>]
TypeNode(star, name) == [nil |-> FALSE, star |-> star, name |-> name]

\* The zero types.Type.
NoType == [Kind |-> 0, Node |-> NilNode]

Node(type, name, pos, obj, typ, kids) ==
    [type |-> type, name |-> name, pos |-> pos, obj |-> obj, typ |-> typ, kids |-> kids]

\* *ast.Ident
Ident(name, pos, obj, typ) == Node("Ident", name, pos, obj, typ, <<>>)

\* *ast.SelectorExpr: X and Sel; its Pos() is that of X.
SelectorExpr(x, sel, obj, typ) == Node("SelectorExpr", <<>>, x.pos, obj, typ, <<x, sel>>)

\* Any other node: only its children matter to the walk.
Other(type, kids) == Node(type, <<>>, NoPos, NilObj, NoType, kids)

\* types.ExprType(e, ctxt.importer): the answer the node carries.
ExprType(e) == [obj |-> e.obj, t |-> e.typ]

(***************************************************************************)
(* The declarations the files are made of.  Positions are offsets in the   *)
(* declaration; objects declared in another file carry the position there. *)
(***************************************************************************)
\* import ( m "q"; . "q"; n "q" )
DeclImports ==
    Other("GenDecl", <<
        Other("ImportSpec", <<Ident(<<"m">>, 1, Obj(3, <<"m">>, Pkg, 1, TRUE), NoType),
                              Other("BasicLit", <<>>)>>),
        Other("ImportSpec", <<Ident(<<".">>, 3, NilObj, NoType), Other("BasicLit", <<>>)>>),
        Other("ImportSpec", <<Ident(<<"n">>, 5, Obj(4, <<"n">>, Pkg, 5, TRUE), NoType),
                              Other("BasicLit", <<>>)>>)>>)

\* var x int = len(q.F)
DeclVar ==
    Other("GenDecl", <<Other("ValueSpec", <<
        Ident(<<"x">>, 1, Obj(5, <<"x">>, Var, 1, TRUE), [Kind |-> Var, Node |-> TypeNode(FALSE, <<"i", "n", "t">>)]),
        Ident(<<"i", "n", "t">>, 2, Universe[<<"i", "n", "t">>], [Kind |-> Typ, Node |-> TypeNode(FALSE, <<"i", "n", "t">>)]),
        Other("CallExpr", <<
            Ident(<<"l", "e", "n">>, 3, Universe[<<"l", "e", "n">>], NoType),
            SelectorExpr(
                Ident(<<"q">>, 4, Obj(6, <<"q">>, Pkg, 11, FALSE), [Kind |-> Pkg, Node |-> TypeNode(FALSE, <<"q">>)]),
                Ident(<<"F">>, 5, NilObj, NoType),
                Obj(7, <<"F">>, Fun, 27, FALSE),
                [Kind |-> Fun, Node |-> TypeNode(FALSE, <<"f", "u", "n", "c", "(", ")">>)])>>)>>)>>)

\* func f() { y.a.b; f; T{k: v.c} }
DeclFunc ==
    Other("FuncDecl", <<
        Ident(<<"f">>, 1, Obj(8, <<"f">>, Fun, 1, TRUE), [Kind |-> Fun, Node |-> TypeNode(FALSE, <<"f", "u", "n", "c", "(", ")">>)]),
        Other("FuncType", <<>>),
        Other("BlockStmt", <<
            Other("ExprStmt", <<
                SelectorExpr(
                    SelectorExpr(
                        Ident(<<"y">>, 2, Obj(9, <<"y">>, Var, 33, FALSE), [Kind |-> Var, Node |-> TypeNode(TRUE, <<"T">>)]),
                        Ident(<<"a">>, 3, NilObj, NoType),
                        Obj(10, <<"a">>, Var, 41, FALSE),
                        [Kind |-> Var, Node |-> TypeNode(FALSE, <<"U">>)]),
                    Ident(<<"b">>, 4, NilObj, NoType),
                    Obj(11, <<"b">>, Var, 45, FALSE),
                    [Kind |-> Var, Node |-> TypeNode(FALSE, <<"i", "n", "t">>)])>>),
            Other("ExprStmt", <<
                Ident(<<"f">>, 5, Obj(8, <<"f">>, Fun, 1, TRUE), [Kind |-> Fun, Node |-> TypeNode(FALSE, <<"f", "u", "n", "c", "(", ")">>)])>>),
            Other("CompositeLit", <<
                Ident(<<"T">>, 6, Obj(12, <<"T">>, Typ, 15, FALSE), [Kind |-> Typ, Node |-> TypeNode(FALSE, <<"T">>)]),
                Other("KeyValueExpr", <<
                    Ident(<<"k">>, 7, Obj(13, <<"k">>, Var, 16, FALSE), NoType),
                    SelectorExpr(
                        Ident(<<"v">>, 8, Obj(14, <<"v">>, Var, 35, FALSE), NoType),
                        Ident(<<"c">>, 9, NilObj, NoType),
                        Obj(15, <<"c">>, Con, 47, FALSE),
                        [Kind |-> Con, Node |-> TypeNode(FALSE, <<"i", "n", "t">>)])>>)>>)>>)>>)

\* func init() { len; u }, where len is a variable of the package and u
\* resolves to nothing
DeclInit ==
    Other("FuncDecl", <<
        Ident(<<"i", "n", "i", "t">>, 1, NilObj, NoType),
        Other("FuncType", <<>>),
        Other("BlockStmt", <<
            Ident(<<"l", "e", "n">>, 2, Obj(16, <<"l", "e", "n">>, Var, 52, FALSE), [Kind |-> Var, Node |-> TypeNode(FALSE, <<"i", "n", "t">>)]),
            Ident(<<"u">>, 3, NilObj, NoType)>>)>>)

\* func (r T) init() { r; r.w; u; r }, where r.w and u resolve to nothing
DeclMethod ==
    Other("FuncDecl", <<
        Other("FieldList", <<Other("Field", <<
            Ident(<<"r">>, 1, Obj(17, <<"r">>, Var, 1, TRUE), [Kind |-> Var, Node |-> TypeNode(FALSE, <<"T">>)]),
            Ident(<<"T">>, 2, Obj(12, <<"T">>, Typ, 15, FALSE), [Kind |-> Typ, Node |-> TypeNode(FALSE, <<"T">>)])>>)>>),
        Ident(<<"i", "n", "i", "t">>, 3, Obj(18, <<"i", "n", "i", "t">>, Fun, 3, TRUE), [Kind |-> Fun, Node |-> TypeNode(FALSE, <<"f", "u", "n", "c", "(", ")">>)]),
        Other("FuncType", <<>>),
        Other("BlockStmt", <<
            Ident(<<"r">>, 4, Obj(17, <<"r">>, Var, 1, TRUE), [Kind |-> Var, Node |-> TypeNode(FALSE, <<"T">>)]),
            SelectorExpr(
                Ident(<<"r">>, 5, Obj(17, <<"r">>, Var, 1, TRUE), [Kind |-> Var, Node |-> TypeNode(FALSE, <<"T">>)]),
                Ident(<<"w">>, 6, NilObj, NoType),
                NilObj,
                NoType),
            Ident(<<"u">>, 7, NilObj, NoType),
            Ident(<<"r">>, 8, Obj(17, <<"r">>, Var, 1, TRUE), [Kind |-> Var, Node |-> TypeNode(FALSE, <<"T">>)])>>)>>)

DeclMenu == <<DeclImports, DeclVar, DeclFunc, DeclInit, DeclMethod>>

\* The first address ast.NewObj can return: above those of the objects the
\* parser and the resolver made.
FirstNewObj == 19

(***************************************************************************)
(* types.FileSet: file f of the package holds the positions                *)
(* f * FileSpan + 1 .. f * FileSpan + FileSpan - 1, its j-th declaration   *)
(* starts at offset (j - 1) * DeclSpan on line j; file 0 is a file of the  *)
(* other package q.                                                        *)
(***************************************************************************)
FileSpan == 100
DeclSpan == 10

\* The node n of a declaration, placed at base.
RECURSIVE Place(_, _)
RECURSIVE PlaceAll(_, _)
Place(n, base) ==
    [n EXCEPT !.pos = IF @ = NoPos THEN NoPos ELSE base + @,
              !.obj = IF @.rel THEN [@ EXCEPT !.Decl = base + @, !.rel = FALSE] ELSE @,
              !.kids = PlaceAll(@, base)]
PlaceAll(ns, base) ==
    IF ns = <<>> THEN <<>> ELSE <<Place(Head(ns), base)>> \o PlaceAll(Tail(ns), base)

\* The declarations ds (indexes in DeclMenu) of file f from the j-th on.
RECURSIVE Decls(_, _, _)
Decls(ds, f, j) ==
    IF j > Len(ds) THEN <<>>
    ELSE <<Place(DeclMenu[ds[j]], f * FileSpan + (j - 1) * DeclSpan)>> \o Decls(ds, f, j + 1)

\* *ast.File
File(ds, f) == Other("File", Decls(ds, f, 1))

\* The lists of at most MaxTotal declarations, as indexes in DeclMenu.
DeclLists == UNION {[1..n -> 1..Len(DeclMenu)] : n \in 1..MaxTotal}

\* The list ds from its i-th element on, cut into files after the indexes
\* in cuts.
RECURSIVE Parts(_, _, _)
Parts(ds, cuts, i) ==
    IF i > Len(ds) THEN <<>>
    ELSE LET later == {c \in cuts : c >= i}
             e == IF later = {} THEN Len(ds) ELSE Min(later)
         IN <<SubSeq(ds, i, e)>> \o Parts(ds, cuts, e + 1)

\* pkg.Files: at most MaxFiles files of at most MaxDecls declarations each,
\* MaxTotal declarations in all.
FileLists ==
    UNION {{[f \in DOMAIN dss |-> File(dss[f], f)] :
               dss \in {ps \in {Parts(ds, cuts, 1) : cuts \in SUBSET (1..(Len(ds) - 1))} :
                           /\ Len(ps) <= MaxFiles
                           /\ \A f \in DOMAIN ps : Len(ps[f]) <= MaxDecls}} :
           ds \in DeclLists}

\* The root the packages lie under: $GOPATH/src/.
GoPathSrc == <<"/", "g", "/", "s", "r", "c", "/">>

FileName(f) ==
    IF f = 0 THEN GoPathSrc \o <<"q", "/", "b", ".", "g", "o">>
    ELSE GoPathSrc \o <<"p", "/", "f">> \o Itoa(f) \o <<".", "g", "o">>

\* position(pos): types.FileSet.Position(pos)
position(pos) ==
    IF pos = NoPos THEN [Filename |-> <<>>, Line |-> 0, Column |-> 0]
    ELSE [Filename |-> FileName(pos \div FileSpan),
          Line |-> ((pos % FileSpan) \div DeclSpan) + 1,
          Column |-> (pos % DeclSpan) + 1]

\* filepath.Dir(name)
Dir(name) ==
    LET slashes == {i \in 1..Len(name) : name[i] = "/"}
    IN IF slashes = {} THEN <<".">>
       ELSE IF Max(slashes) = 1 THEN <<"/">>
       ELSE SubSeq(name, 1, Max(slashes) - 1)

\* build.Import(".", dir, build.FindOnly).ImportPath: the directory relative
\* to the root it lies under, "." under no root.  With FindOnly and a
\* directory to start from no error is reported.
ImportPath(dir) ==
    IF Len(dir) > Len(GoPathSrc) /\ SubSeq(dir, 1, Len(GoPathSrc)) = GoPathSrc
    THEN SubSeq(dir, Len(GoPathSrc) + 1, Len(dir))
    ELSE <<".">>

NoPanic == "none"

positionToImportPath(p) ==
    IF p.Filename = <<>> THEN [panic |-> "empty file name", path |-> <<>>]
    ELSE [panic |-> NoPanic, path |-> ImportPath(Dir(p.Filename))]

\* pretty{n}.String(): printer.Fprint writes nothing for a nil node.
pretty(n) ==
    IF n.nil THEN <<>> ELSE (IF n.star THEN <<"*">> ELSE <<>>) \o n.name

depointer(x) == IF x.star THEN [x EXCEPT !.star = FALSE] ELSE x

(***************************************************************************)
(* visitPrint: what a call does, as a record of the value returned, the   *)
(* lines printed, the messages logged and the panic raised, if any.        *)
(***************************************************************************)
Returns(ret, lines, logs) == [ret |-> ret, lines |-> lines, logs |-> logs, panic |-> NoPanic]
Panics(msg) == [ret |-> FALSE, lines |-> <<>>, logs |-> <<>>, panic |-> msg]

\* A filter that looks at the kind only.
FilteredKindOnly(info, kindMask) == ~HasBit(kindMask, info.referObj.Kind)
\* The two early returns: the kind is not in the mask, or the object is in
\* the universe and -a is not set.
Filtered(info, kindMask) ==
    \/ ~HasBit(kindMask, info.referObj.Kind)
    \/ info.universe /\ ~all

\* The switch on info.expr: the name printed.
ExprName(e, xt) ==
    IF e.type = "Ident" THEN e.name
    ELSE IF xt.Kind # Pkg THEN pretty(depointer(xt.Node)) \o <<".">> \o e.kids[2].name
    ELSE e.kids[2].name

\* A marker set whenever the object has a declaration position.
DefinitionIfDeclared(info) == info.referPos # NoPos
\* definition: info.referPos == info.pos
Definition(info) == info.referPos = info.pos

\* The body of visitPrint, with the value of *verbose it reads as v.
visitPrintVerbose(info, kindMask, v) ==
    IF Filtered(info, kindMask) THEN Returns(TRUE, <<>>, <<>>)
    ELSE
    LET eposition == position(info.pos)
        exprPkg == positionToImportPath(eposition)
        referPkg == IF info.universe THEN [panic |-> NoPanic, path |-> StrUniverse]
                    ELSE positionToImportPath(position(info.referPos))
        e == info.expr
        xt == IF e.type = "SelectorExpr" THEN ExprType(e.kids[1]).t ELSE NoType
        line == [pos |-> eposition,
                 exprPkg |-> exprPkg.path,
                 referPkg |-> referPkg.path,
                 local |-> info.local,
                 kind |-> info.referObj.Kind,
                 definition |-> Definition(info),
                 expr |-> ExprName(e, xt),
                 exprType |-> IF printType THEN pretty(info.exprType.Node) ELSE <<>>]
    IN IF exprPkg.panic # NoPanic THEN Panics(exprPkg.panic)
       ELSE IF referPkg.panic # NoPanic THEN Panics(referPkg.panic)
       ELSE IF e.type = "SelectorExpr" /\ xt.Node = NilNode /\ v
            THEN Returns(TRUE, <<>>, <<"no type for">>)
       ELSE Returns(TRUE, <<String(line)>>, <<>>)

visitPrint(info, kindMask) == visitPrintVerbose(info, kindMask, verbose)

(***************************************************************************)
(* visitExpr(visitf, importPath, e, local), where b is what the callback   *)
(* answers when it is not main's visitor: the value returned, whether the  *)
(* callback was invoked and with what, and what the call printed.          *)
(***************************************************************************)
ZeroSymInfo ==
    [pos |-> NoPos, expr |-> Other("nil", <<>>), exprType |-> NoType, referPos |-> NoPos,
     referObj |-> NilObj, local |-> FALSE, universe |-> FALSE]

\* info.pos
ExprPos(e) == IF e.type = "Ident" THEN e.pos ELSE e.kids[2].pos

\* A visitExpr that takes an expression without object for a request to
\* abort.
visitExprStrict(e, local, b) ==
    LET r == ExprType(e)
        universe == UniverseLookup(r.obj.Name) = r.obj
        info == [pos |-> IF e.type = "Ident" THEN e.pos ELSE e.kids[2].pos, expr |-> e,
                 exprType |-> r.t,
                 referPos |-> IF universe THEN NoPos ELSE DeclPos(r.obj),
                 referObj |-> r.obj, local |-> local, universe |-> universe]
    IN IF r.obj = NilObj
       THEN [called |-> FALSE, info |-> info,
             did |-> [ret |-> FALSE, lines |-> <<>>, logs |-> <<>>, panic |-> "none"]]
       ELSE [called |-> TRUE, info |-> info,
             did |-> [ret |-> TRUE, lines |-> <<>>, logs |-> <<>>, panic |-> "none"]]

visitExpr(e, local, b) ==
    LET r == ExprType(e)
        universe == UniverseLookup(r.obj.Name) = r.obj
        info == [pos |-> ExprPos(e), expr |-> e, exprType |-> r.t,
                 referPos |-> IF universe THEN NoPos ELSE DeclPos(r.obj),
                 referObj |-> r.obj, local |-> local, universe |-> universe]
        v == IF visitf = "visitPrint" THEN visitPrint(info, kindsRes.mask)
             ELSE Returns(b, <<>>, <<>>)
    IN IF r.obj = NilObj
       THEN [called |-> FALSE, info |-> ZeroSymInfo,
             did |-> Returns(TRUE, <<>>, IF verbose THEN <<"no object for">> ELSE <<>>)]
       ELSE [called |-> TRUE, info |-> info, did |-> v]

(***************************************************************************)
(* visitExprs: the walk of one file.  The stack holds what the calls of    *)
(* ast.Walk in progress have left to do, the next thing first: a frame     *)
(* "Walk" is a call ast.Walk(visit, n) to make, a frame "visitExpr" is the *)
(* rest of the SelectorExpr case after ast.Walk(visit, n.X) has returned.  *)
(* The call visit(nil) that ends ast.Walk on a node has no effect and is   *)
(* left out.                                                               *)
(***************************************************************************)
WalkFrame(n) == [op |-> "Walk", n |-> n]

RECURSIVE WalkFrames(_)
WalkFrames(ns) == IF ns = <<>> THEN <<>> ELSE <<WalkFrame(Head(ns))>> \o WalkFrames(Tail(ns))

\* The kinds the -k flag lists when main's visitor is used, in the order
\* given; any other callback runs under the default flags.
WalkKinds == {<<StrConst, StrType, StrVar, StrFunc>>, <<StrType, StrVar>>}

\* main up to its loop over the files, the flags parsed; visitf is main's
\* visitor when callback is "visitPrint".
InitWalk(callback) ==
    /\ visitf = callback
    /\ IF callback = "visitPrint"
       THEN /\ verbose \in BOOLEAN
            /\ printType \in BOOLEAN
            /\ all \in BOOLEAN
            /\ kindTokens \in WalkKinds
       ELSE /\ verbose = FALSE
            /\ printType = FALSE
            /\ all = FALSE
            /\ kindTokens = <<StrConst, StrType, StrVar, StrFunc>>
    /\ kindsArg = Join(kindTokens, ",")
    /\ kindsRes = parseKindMask(kindsArg)
    /\ files \in FileLists
    /\ fileIdx = 0
    /\ walkPc = "main"
    /\ ok = TRUE
    /\ stack = <<>>
    /\ nextObj = FirstNewObj
    /\ resolved = <<>>
    /\ calls = <<>>
    /\ stdout = <<>>
    /\ logged = <<>>

IdleWalk ==
    /\ visitf = "visitPrint"
    /\ verbose = FALSE
    /\ printType = FALSE
    /\ all = FALSE
    /\ files = <<>>
    /\ fileIdx = 0
    /\ walkPc = "idle"
    /\ ok = TRUE
    /\ stack = <<>>
    /\ nextObj = FirstNewObj
    /\ resolved = <<>>
    /\ calls = <<>>
    /\ stdout = <<>>
    /\ logged = <<>>

flagVars == <<verbose, printType, all, visitf, files>>

\* main: ctxt.visitExprs(visitor, path, f, mask) for the next file; ok := true
\* and ast.Walk(visit, pkg).
StartFile ==
    /\ walkPc = "main"
    /\ fileIdx < Len(files)
    /\ fileIdx' = fileIdx + 1
    /\ ok' = TRUE
    /\ stack' = <<WalkFrame(files[fileIdx + 1])>>
    /\ walkPc' = "walk"
    /\ UNCHANGED <<flagVars, nextObj, resolved, calls, stdout, logged, notWalkVars>>

\* visitExprs returns to main's loop.
EndFile ==
    /\ walkPc = "walk"
    /\ stack = <<>>
    /\ walkPc' = IF fileIdx < Len(files) THEN "main" ELSE "exit"
    /\ UNCHANGED <<flagVars, fileIdx, ok, stack, nextObj, resolved, calls, stdout, logged,
                   notWalkVars>>

Visiting(types) ==
    /\ walkPc = "walk"
    /\ stack # <<>>
    /\ Head(stack).op = "Walk"
    /\ ok
    /\ Head(stack).n.type \in types

\* if !ok { return false }
VisitAborted ==
    /\ walkPc = "walk"
    /\ stack # <<>>
    /\ Head(stack).op = "Walk"
    /\ ~ok
    /\ stack' = Tail(stack)
    /\ UNCHANGED <<flagVars, fileIdx, walkPc, ok, nextObj, resolved, calls, stdout, logged,
                   notWalkVars>>

\* A test that takes every named import for an import to ".".
IsNamedImport(n) == n.kids # <<>> /\ n.kids[1].type = "Ident"
\* n.Name != nil && n.Name.Name == "."
IsDotImport(n) ==
    /\ n.kids # <<>>
    /\ n.kids[1].type = "Ident"
    /\ n.kids[1].name = <<".">>

\* case *ast.ImportSpec
VisitImportSpec ==
    /\ Visiting({"ImportSpec"})
    /\ LET n == Head(stack).n
       IN IF IsDotImport(n)
          THEN /\ logged' = Append(logged, "import to . not supported")
               /\ ok' = FALSE
               /\ stack' = Tail(stack)
          ELSE /\ stack' = WalkFrames(n.kids) \o Tail(stack)
               /\ UNCHANGED <<ok, logged>>
    /\ UNCHANGED <<flagVars, fileIdx, walkPc, nextObj, resolved, calls, stdout, notWalkVars>>

\* case *ast.FuncDecl: n.Recv is the child before n.Name, if there is one.
VisitFuncDecl ==
    /\ Visiting({"FuncDecl"})
    /\ LET n == Head(stack).n
       IN IF n.kids[1].type # "FieldList" /\ n.kids[1].name = <<"i", "n", "i", "t">>
          THEN /\ stack' = WalkFrames([n.kids EXCEPT ![1].obj = NewObj(Fun, <<"i", "n", "i", "t">>, nextObj)])
                           \o Tail(stack)
               /\ nextObj' = nextObj + 1
          ELSE /\ stack' = WalkFrames(n.kids) \o Tail(stack)
               /\ UNCHANGED nextObj
    /\ UNCHANGED <<flagVars, fileIdx, walkPc, ok, resolved, calls, stdout, logged, notWalkVars>>

\* ok = ctxt.visitExpr(visitf, importPath, e, local), local being false; a
\* panic ends the program.
CallVisitExpr(e) ==
    \E b \in IF visitf = "visitPrint" \/ ExprType(e).obj = NilObj THEN {TRUE} ELSE BOOLEAN :
        LET r == visitExpr(e, FALSE, b)
        IN /\ resolved' = Append(resolved, ExprPos(e))
           /\ calls' = IF r.called
                       THEN Append(calls, [file |-> fileIdx, info |-> r.info, ret |-> r.did.ret,
                                           out |-> Len(stdout)])
                       ELSE calls
           /\ stdout' = stdout \o r.did.lines
           /\ logged' = logged \o r.did.logs
           /\ IF r.did.panic # NoPanic
              THEN /\ walkPc' = "panic"
                   /\ UNCHANGED <<ok, stack>>
              ELSE /\ ok' = r.did.ret
                   /\ stack' = Tail(stack)
                   /\ UNCHANGED walkPc

\* case *ast.Ident
VisitIdent ==
    /\ Visiting({"Ident"})
    /\ CallVisitExpr(Head(stack).n)
    /\ UNCHANGED <<flagVars, fileIdx, nextObj, notWalkVars>>

\* A key/value case that leaves both children to ast.Walk.
VisitKeyValueBoth ==
    /\ Visiting({"KeyValueExpr"})
    /\ stack' = WalkFrames(Head(stack).n.kids) \o Tail(stack)
    /\ UNCHANGED <<flagVars, fileIdx, walkPc, ok, nextObj, resolved, calls, stdout, logged,
                   notWalkVars>>

\* case *ast.KeyValueExpr: ast.Walk(visit, n.Value)
VisitKeyValueExpr ==
    /\ Visiting({"KeyValueExpr"})
    /\ stack' = <<WalkFrame(Head(stack).n.kids[2])>> \o Tail(stack)
    /\ UNCHANGED <<flagVars, fileIdx, walkPc, ok, nextObj, resolved, calls, stdout, logged,
                   notWalkVars>>

\* A selector case that lets ast.Walk descend into the children as well.
VisitSelectorDescend ==
    /\ Visiting({"SelectorExpr"})
    /\ stack' = <<WalkFrame(Head(stack).n.kids[1]), [op |-> "visitExpr", n |-> Head(stack).n]>>
                \o WalkFrames(Head(stack).n.kids) \o Tail(stack)
    /\ UNCHANGED <<flagVars, fileIdx, walkPc, ok, nextObj, resolved, calls, stdout, logged,
                   notWalkVars>>

\* case *ast.SelectorExpr: ast.Walk(visit, n.X), the rest comes after it
VisitSelectorExpr ==
    /\ Visiting({"SelectorExpr"})
    /\ stack' = <<WalkFrame(Head(stack).n.kids[1]), [op |-> "visitExpr", n |-> Head(stack).n]>>
                \o Tail(stack)
    /\ UNCHANGED <<flagVars, fileIdx, walkPc, ok, nextObj, resolved, calls, stdout, logged,
                   notWalkVars>>

\* case *ast.SelectorExpr, after ast.Walk(visit, n.X):
\* ok = ctxt.visitExpr(visitf, importPath, n, local)
SelectorVisitExpr ==
    /\ walkPc = "walk"
    /\ stack # <<>>
    /\ Head(stack).op = "visitExpr"
    /\ CallVisitExpr(Head(stack).n)
    /\ UNCHANGED <<flagVars, fileIdx, nextObj, notWalkVars>>

\* case *ast.File: ast.Walk(visit, d) for each declaration
VisitFile ==
    /\ Visiting({"File"})
    /\ stack' = WalkFrames(Head(stack).n.kids) \o Tail(stack)
    /\ UNCHANGED <<flagVars, fileIdx, walkPc, ok, nextObj, resolved, calls, stdout, logged,
                   notWalkVars>>

\* Any other node: visit returns true and ast.Walk goes on to the children.
VisitOther ==
    /\ Visiting({"GenDecl", "ValueSpec", "CallExpr", "BasicLit", "FuncType", "BlockStmt",
                 "ExprStmt", "CompositeLit", "FieldList", "Field"})
    /\ stack' = WalkFrames(Head(stack).n.kids) \o Tail(stack)
    /\ UNCHANGED <<flagVars, fileIdx, walkPc, ok, nextObj, resolved, calls, stdout, logged,
                   notWalkVars>>

NextWalk ==
    \/ StartFile
    \/ EndFile
    \/ VisitAborted
    \/ VisitImportSpec
    \/ VisitFuncDecl
    \/ VisitIdent
    \/ VisitKeyValueExpr
    \/ VisitSelectorExpr
    \/ SelectorVisitExpr
    \/ VisitFile
    \/ VisitOther

(***************************************************************************)
(* Specifications.                                                         *)
(***************************************************************************)
IdleKinds == kindTokens = <<StrFunc>> /\ kindsArg = StrFunc /\ kindsRes = NotYet

InitSpecKinds == InitKinds /\ InitCache /\ IdleLine /\ IdleWalk
NextSpecKinds == CallParseKindMask
SpecKinds == InitSpecKinds /\ [][NextSpecKinds]_vars

InitSpecCache == InitCache /\ IdleKinds /\ IdleLine /\ IdleWalk
NextSpecCache == NextCache
SpecCache == InitSpecCache /\ [][NextSpecCache]_vars

InitSpecLine == InitLine /\ InitCache /\ IdleKinds /\ IdleWalk
NextSpecLine == NextLine
SpecLine == InitSpecLine /\ [][NextSpecLine]_vars

\* The callers of ctxt.importer under fair scheduling: a caller that can take
\* its next step takes it, a call of types.DefaultImporter returns, and a
\* caller that finds the mutex free again and again gets it.
FairCache ==
    \A c \in Callers :
        /\ SF_vars(Lock(c))
        /\ WF_vars(CheckCache(c))
        /\ WF_vars(ImportStart(c))
        /\ WF_vars(ImportReturn(c))
        /\ WF_vars(StoreCache(c))
        /\ WF_vars(Unlock(c))
SpecCacheFair == InitSpecCache /\ [][NextSpecCache]_vars /\ FairCache

\* main with its own visitor.
InitSpecMain == InitWalk("visitPrint") /\ InitCache /\ IdleLine
NextSpecMain == NextWalk
SpecMain == InitSpecMain /\ [][NextSpecMain]_vars

\* visitExprs with a callback that answers what it likes.
InitSpecVisit == InitWalk("any") /\ InitCache /\ IdleLine
NextSpecVisit == NextWalk
SpecVisit == InitSpecVisit /\ [][NextSpecVisit]_vars

(***************************************************************************)
(* The claims.                                                             *)
(***************************************************************************)
(***************************************************************************)
(* The occurrences of a tree, read off its shape: the identifiers and      *)
(* selectors that resolve to an object, a selector after those of its      *)
(* base, the key of a key/value pair left out, the name of a receiver-less *)
(* init function counted in; at is the list of their positions up to the   *)
(* first import spec named ".", dot tells whether there is one.            *)
(***************************************************************************)
RECURSIVE Occurrences(_)
RECURSIVE OccurrencesOfAll(_)
Occurrences(n) ==
    IF n.type = "Ident"
    THEN [at |-> IF n.obj # NilObj THEN <<n.pos>> ELSE <<>>, dot |-> FALSE]
    ELSE IF n.type = "SelectorExpr"
    THEN LET x == Occurrences(n.kids[1])
         IN [at |-> x.at \o (IF n.obj # NilObj THEN <<n.kids[2].pos>> ELSE <<>>), dot |-> x.dot]
    ELSE IF n.type = "KeyValueExpr" THEN Occurrences(n.kids[2])
    ELSE IF n.type = "ImportSpec" /\ n.kids[1].name = <<".">> THEN [at |-> <<>>, dot |-> TRUE]
    ELSE IF n.type = "FuncDecl" /\ n.kids[1].name = <<"i", "n", "i", "t">>
    THEN LET rest == OccurrencesOfAll(Tail(n.kids))
         IN [at |-> <<n.kids[1].pos>> \o rest.at, dot |-> rest.dot]
    ELSE OccurrencesOfAll(n.kids)
OccurrencesOfAll(ns) ==
    IF ns = <<>> THEN [at |-> <<>>, dot |-> FALSE]
    ELSE LET h == Occurrences(Head(ns))
             t == OccurrencesOfAll(Tail(ns))
         IN IF h.dot THEN h ELSE [at |-> h.at \o t.at, dot |-> t.dot]

\* The positions of the occurrences the callback was invoked with for file k.
RECURSIVE PositionsIn(_, _)
PositionsIn(cs, k) ==
    IF cs = <<>> THEN <<>>
    ELSE (IF Head(cs).file = k THEN <<Head(cs).info.pos>> ELSE <<>>) \o PositionsIn(Tail(cs), k)

IsPrefix(a, b) == Len(a) <= Len(b) /\ SubSeq(b, 1, Len(a)) = a

\* visitExprs has returned for file k.
Walked(k) == k < fileIdx \/ (k = fileIdx /\ walkPc \in {"main", "exit"})

\* C1: under main's visitor, what is reported for a file is at every moment
\* a prefix of its occurrences before its first import spec named ".", and
\* is exactly these occurrences once visitExprs has returned: nothing from
\* the clause onward is reported, and the report of the next file is that
\* of its own occurrences, whatever happened in the files before.
C1_DotImportAborts ==
    \A k \in 1..fileIdx :
        /\ IsPrefix(PositionsIn(calls, k), Occurrences(files[k]).at)
        /\ Walked(k) => PositionsIn(calls, k) = Occurrences(files[k]).at

\* The positions of the identifiers of a tree that resolve to an object.
RECURSIVE Resolvable(_)
Resolvable(n) ==
    (IF n.type = "Ident" /\ n.obj # NilObj THEN {n.pos} ELSE {})
    \cup UNION {Resolvable(n.kids[i]) : i \in DOMAIN n.kids}

\* The first file holds an import to "." with a reported occurrence before
\* it and an identifier that resolves, unreported, after it; the second
\* file has been walked and has reported occurrences.
C1_Witness ==
    /\ walkPc = "exit"
    /\ fileIdx = 2
    /\ Occurrences(files[1]).dot
    /\ PositionsIn(calls, 1) # <<>>
    /\ PositionsIn(calls, 1) = Occurrences(files[1]).at
    /\ \E p \in Resolvable(files[1]) : \A i \in 1..Len(calls) : calls[i].file = 1 => calls[i].info.pos < p
    /\ PositionsIn(calls, 2) # <<>>
    /\ "import to . not supported" \in {logged[i] : i \in 1..Len(logged)}

\* C2: within one walk of visitExprs, whatever the callback answers, once ok
\* is false it stays false and the callback is not invoked again.
C2_AbortIsFinal ==
    [][(walkPc = "walk" /\ walkPc' = "walk" /\ ~ok) => (~ok' /\ calls' = calls)]_vars


\* C3: types.DefaultImporter is invoked at most once per import path, whatever
\* it returns (a nil package included).
C3_ImportedAtMostOnce == \A p \in Paths : importCalls[p] <= 1

\* A caller is between ctxt.mu.Lock() and the deferred ctxt.mu.Unlock().
InsideImporter(c) == callerPc[c] \in {"check", "import", "importing", "store", "unlock"}

\* A caller is populating an entry: the miss is decided, the entry not yet stored.
Populating(c) == callerPc[c] \in {"import", "importing", "store"}

\* C4: at most one caller at a time is inside the check-then-populate section
\* of ctxt.importer, so no two callers run the underlying import together and
\* no caller reads the cache while another caller's population is in progress.
C4_OneCallerInside ==
    \A c1, c2 \in Callers :
        c1 # c2 =>
            /\ ~(InsideImporter(c1) /\ InsideImporter(c2))
            /\ ~(callerPc[c1] = "importing" /\ callerPc[c2] = "importing")
            /\ ~(callerPc[c1] = "check" /\ Populating(c2))

\* Two callers want the same path: one runs the import, the other waits.
C4_Witness ==
    \E c1, c2 \in Callers :
        /\ callerPc[c1] = "importing"
        /\ callerPc[c2] = "lock"
        /\ callerPath[c1] = callerPath[c2]

\* C5: parseSymLine(x.String()) succeeds and gives back x in every field that
\* String printed (the expression text has no white space in any x here).
C5_RoundTrip ==
    linePc = "reparsed" => parseRes.status = "ok" /\ parseRes.l = symIn

\* The text of a line in the order of the format description: the local marker
\* before the expression text, the kind right after the expression text.
LocalExprKind(l) ==
    Concat(<<PositionString(l.pos), <<":", " ">>, l.exprPkg, <<" ">>, l.referPkg, <<" ">>,
             IF l.local THEN StrLocal ELSE <<>>, l.expr, KindString(l.kind),
             IF l.definition THEN <<"+">> ELSE <<>>,
             IF l.exprType # <<>> THEN <<" ">> \o l.exprType ELSE <<>> >>)

\* The text of a line with the expression text as a field of its own: one
\* space after it, then the local marker and the kind.
ExprLocalKind(l) ==
    Concat(<<PositionString(l.pos), <<":", " ">>, l.exprPkg, <<" ">>, l.referPkg, <<" ">>,
             l.expr, <<" ">>, IF l.local THEN StrLocal ELSE <<>>, KindString(l.kind),
             IF l.definition THEN <<"+">> ELSE <<>>,
             IF l.exprType # <<>> THEN <<" ">> \o l.exprType ELSE <<>> >>)

Printed == linePc \in {"printed", "reparsed"}

\* C6 as stated: String renders <file>:<line>:<col>: <ownerPkg> <referPkg>
\* [local]<expr><kind>[+][ <type>].
C6_LocalExprKind == Printed => lineText = LocalExprKind(symIn)

\* C6 as amended: String renders <file>:<line>:<col>: <ownerPkg> <referPkg>
\* <expr> [local]<kind>[+][ <type>]: the expression text is followed by one
\* space, then by the local marker if any and the kind; + appears iff the
\* definition flag is set, the type text, after one space, iff it is not empty.
C6_ExprLocalKind == Printed => lineText = ExprLocalKind(symIn)

\* A line with all three optional parts has been printed.
C6_Witness ==
    /\ Printed
    /\ symIn.local /\ symIn.definition /\ symIn.exprType # <<>>

\* The strings linePat matches, read as a grammar from the left: the sets of
\* indexes that can follow each item.
OneOrMore(s, P, class) ==
    {j \in Indexes(s) : \E i \in P : i < j /\ \A k \in i..(j - 1) : InClass(class, s[k])}
Literal(s, P, lit) ==
    {i + Len(lit) : i \in {k \in P : k + Len(lit) - 1 <= Len(s) /\ Slice(s, k, k + Len(lit)) = lit}}
Optional(P, Q) == P \cup Q
ToEnd(s, P) == {Len(s) + 1 : i \in {k \in P : \A j \in k..Len(s) : s[j] # "\n"}}

AfterFile(s) == Literal(s, OneOrMore(s, {1}, "[^:]"), <<":">>)
AfterNumber(s, P) == Literal(s, OneOrMore(s, P, "\\d"), <<":">>)
AfterField(s, P, class) == OneOrMore(s, OneOrMore(s, P, "\\s"), class)
AfterLocal(s, P) == Optional(P, Literal(s, P, StrLocal))
AfterPlus(s, P) == Optional(P, Literal(s, P, <<"+">>))
AfterTypeText(s, P) == Optional(P, ToEnd(s, OneOrMore(s, OneOrMore(s, P, "\\s"), "[^\\s]")))

InLinePat(s) ==
    (Len(s) + 1) \in
        AfterTypeText(s,
          AfterPlus(s,
            OneOrMore(s,
              AfterLocal(s,
                OneOrMore(s,
                  AfterField(s,
                    AfterField(s, AfterNumber(s, AfterNumber(s, AfterFile(s))), "[^ ]"),
                    "[^\\s]"),
                  "\\s")),
              "[^\\s+]")))

Parsed == linePc \in {"parsed", "reparsed"}

\* C7 as stated: parseSymLine returns either a record or, without panicking,
\* an "invalid line" error that carries the text it was given, and no other
\* kind of error.
C7_RecordOrInvalidLine ==
    Parsed =>
        \/ parseRes.status = "ok"
        \/ /\ parseRes.status = "error"
           /\ parseRes.err = [msg |-> "invalid line", arg |-> lineText]

\* C7 as amended: parseSymLine returns the "invalid line" error carrying the
\* text exactly for the strings linePat does not match; for a string linePat
\* matches it panics with "bad number" when the line or the column does not
\* fit an int, else returns an "invalid kind" error carrying the token when the
\* token in the place of the kind is none of const, type, var, func, and
\* else returns a record with that kind.
ParsedAs(text, res, r) ==
    IF ~InLinePat(text)
    THEN /\ res.status = "error"
         /\ res.err = [msg |-> "invalid line", arg |-> text]
    ELSE IF ~AtoiFits(r.m[2]) \/ ~AtoiFits(r.m[3])
    THEN res.status = "panic" /\ res.err.msg = "bad number"
    ELSE IF r.m[7] \notin {StrConst, StrType, StrVar, StrFunc}
    THEN /\ res.status = "error"
         /\ res.err = [msg |-> "invalid kind", arg |-> r.m[7]]
    ELSE /\ res.status = "ok"
         /\ KindString(res.l.kind) = r.m[7]

C7_InvalidLineOrKind ==
    Parsed => ParsedAs(lineText, parseRes, FindStringSubmatch(lineText))

\* A text that linePat matches, with a word that is no kind in the place of
\* the kind, has been parsed.
C7_Witness ==
    /\ linePc = "parsed"
    /\ InLinePat(lineText)
    /\ parseRes.status = "error"
    /\ parseRes.err.msg = "invalid kind"

\* The kinds a token list names.
KindsListed(ts) == {objKinds[ts[i]] : i \in {j \in 1..Len(ts) : ts[j] \in DOMAIN objKinds}}

AllKnown(ts) == \A i \in 1..Len(ts) : ts[i] \in DOMAIN objKinds

\* C8: for a list of tokens among const, type, var, func the mask has exactly
\* the bits of the listed kinds and there is no error; for a list with another
\* token (the empty one included) there is an error naming a token of the list
\* that is not a kind, with a zero mask.
C8_ParseKindMask ==
    kindsRes # NotYet =>
        IF AllKnown(kindTokens)
        THEN /\ kindsRes.err = NoErr
             /\ kindsRes.mask < Pow2(Fun + 1)
             /\ \A b \in 0..Fun : HasBit(kindsRes.mask, b) <=> b \in KindsListed(kindTokens)
        ELSE /\ kindsRes.err.msg = "unknown type kind"
             /\ \E i \in 1..Len(kindTokens) :
                    /\ kindTokens[i] \notin DOMAIN objKinds
                    /\ kindsRes.err.arg = kindTokens[i]
             /\ kindsRes.mask = 0

\* A list naming two kinds, one of them twice, has been parsed.
C8_Witness ==
    /\ kindsRes # NotYet
    /\ kindsRes.err = NoErr
    /\ Len(kindTokens) = 3
    /\ Cardinality(KindsListed(kindTokens)) = 2

\* The lines printed by the i-th invocation of the callback.
LinesOf(i) ==
    SubSeq(stdout, calls[i].out + 1, IF i < Len(calls) THEN calls[i + 1].out ELSE Len(stdout))

\* The kind is one of those the -k flag lists.
KindInFlag(kind) == \E j \in 1..Len(kindTokens) : objKinds[kindTokens[j]] = kind

\* The object is one of the predeclared ones.
InUniverse(obj) == \E name \in DOMAIN Universe : Universe[name] = obj

\* The i-th field of a line, the fields being separated by single spaces:
\* <file>:<line>:<col>:, owner package, referenced package, expression,
\* [local]<kind>[+], and the type text from the sixth on.
TextField(text, i) == Split(text, " ")[i]

\* C9: visitPrint prints no line for an occurrence whose kind the -k flag
\* does not list, none for an occurrence of a predeclared object unless -a
\* is set, and exactly one line, with universe as its referenced package,
\* for an occurrence of a predeclared object of a listed kind when -a is set.
C9_KindAndUniverseFilter ==
    \A i \in 1..Len(calls) :
        LET obj == calls[i].info.referObj
        IN /\ ~KindInFlag(obj.Kind) => LinesOf(i) = <<>>
           /\ (InUniverse(obj) /\ ~all) => LinesOf(i) = <<>>
           /\ (InUniverse(obj) /\ all /\ KindInFlag(obj.Kind)) =>
                  /\ Len(LinesOf(i)) = 1
                  /\ TextField(LinesOf(i)[1], 3) = StrUniverse

\* With -a set, an occurrence of a predeclared object has printed its line
\* and an occurrence of a kind that is not listed has printed none.
C9_Witness ==
    /\ visitf = "visitPrint"
    /\ all
    /\ \E i \in 1..Len(calls) :
          /\ InUniverse(calls[i].info.referObj)
          /\ KindInFlag(calls[i].info.referObj.Kind)
          /\ Len(LinesOf(i)) = 1
    /\ \E i \in 1..Len(calls) :
          /\ ~KindInFlag(calls[i].info.referObj.Kind)
          /\ LinesOf(i) = <<>>

\* The line's kind field ends with the marker +.
Marked(text) == LET f == TextField(text, 5) IN f # <<>> /\ f[Len(f)] = "+"

\* C10: a printed line carries the marker + if and only if the position of
\* the occurrence is the position of the declaration of the object it
\* resolves to; the line of a predeclared object never carries it.
C10_PlusIffDefinition ==
    \A i \in 1..Len(calls) :
        \A j \in 1..Len(LinesOf(i)) :
            LET info == calls[i].info
            IN Marked(LinesOf(i)[j]) <=>
                   (~InUniverse(info.referObj) /\ info.pos = DeclPos(info.referObj))

\* A line with the marker, a line without it for an object declared
\* elsewhere and a line without it for a predeclared object have been
\* printed.
C10_Witness ==
    /\ \E i \in 1..Len(calls) : LinesOf(i) # <<>> /\ Marked(LinesOf(i)[1])
    /\ \E i \in 1..Len(calls) :
          /\ LinesOf(i) # <<>>
          /\ ~InUniverse(calls[i].info.referObj)
          /\ ~Marked(LinesOf(i)[1])
    /\ \E i \in 1..Len(calls) :
          /\ LinesOf(i) # <<>>
          /\ InUniverse(calls[i].info.referObj)
          /\ ~Marked(LinesOf(i)[1])

\* The occurrence passes the filter: its kind is listed, and it is not an
\* occurrence of a predeclared object unless -a is set.
PassesFilter(info) ==
    KindInFlag(info.referObj.Kind) /\ (~InUniverse(info.referObj) \/ all)

\* C11: every occurrence that passes the filter prints exactly one line, the
\* line of its own position, so that the lines come in the order of the
\* traversal.
C11_OneLinePerOccurrence ==
    \A i \in 1..Len(calls) :
        PassesFilter(calls[i].info) =>
            /\ Len(LinesOf(i)) = 1
            /\ TextField(LinesOf(i)[1], 1)
                   = PositionString(position(calls[i].info.pos)) \o <<":">>

\* The next step hands an expression without object to the resolver.
Unresolving ==
    /\ walkPc = "walk"
    /\ stack # <<>>
    /\ ok \/ Head(stack).op = "visitExpr"
    /\ Head(stack).op = "visitExpr" \/ Head(stack).n.type = "Ident"
    /\ Head(stack).n.obj = NilObj

\* C12: the step that finds no object for an identifier or a selector does
\* not invoke the callback, prints no line, leaves ok true, does not end the
\* program, and leaves the rest of the walk as it was: only the message "no
\* object for" is logged, under -v.
C12_UnresolvedIsSkipped ==
    [][Unresolving =>
          /\ calls' = calls
          /\ stdout' = stdout
          /\ ok'
          /\ walkPc' = walkPc
          /\ stack' = Tail(stack)
          /\ logged' = IF verbose THEN Append(logged, "no object for") ELSE logged]_vars

\* An identifier and a selector have been handed to the resolver without
\* being reported, and an occurrence after them has been reported.
C12_Witness ==
    /\ \E i \in 1..Len(resolved) : \E j \in (i + 1)..Len(resolved) :
          /\ \A c \in 1..Len(calls) :
                calls[c].info.pos # resolved[i] /\ calls[c].info.pos # resolved[j]
          /\ \E c \in 1..Len(calls) : calls[c].info.pos > resolved[j]

\* The selector expressions of a tree.
RECURSIVE Selectors(_)
Selectors(n) ==
    (IF n.type = "SelectorExpr" THEN {n} ELSE {})
    \cup UNION {Selectors(n.kids[i]) : i \in DOMAIN n.kids}

\* The positions resolved in an expression, in order: an identifier, or a
\* base followed by the field name of its selector.
RECURSIVE BaseFirst(_)
BaseFirst(e) ==
    IF e.type = "SelectorExpr" THEN BaseFirst(e.kids[1]) \o <<e.kids[2].pos>> ELSE <<e.pos>>

\* How many times the position p was handed to the resolver.
TimesResolved(p) == Cardinality({i \in 1..Len(resolved) : resolved[i] = p})

\* C13: for every selector a.b of the files, no position of it is resolved
\* twice; when the selector itself has been resolved, the occurrences of its
\* base were resolved before it, in their order; and once the walk of its
\* file has returned, a selector whose base was reached has been resolved
\* exactly once.
C13_BaseThenSelectorOnce ==
    \A k \in 1..fileIdx : \A e \in Selectors(files[k]) :
        LET order == BaseFirst(e)
            at == {i \in 1..Len(resolved) : resolved[i] = order[Len(order)]}
        IN /\ \A j \in 1..Len(order) : TimesResolved(order[j]) <= 1
           /\ \A i \in at : i >= Len(order) /\ SubSeq(resolved, i - Len(order) + 1, i) = order
           /\ (Walked(k) /\ TimesResolved(order[1]) = 1) => TimesResolved(order[Len(order)]) = 1

\* The walk of a file with the selector y.a.b has returned and y, y.a and
\* y.a.b have been resolved.
C13_Witness ==
    /\ walkPc = "exit"
    /\ \E k \in 1..fileIdx : \E e \in Selectors(files[k]) :
          /\ Len(BaseFirst(e)) = 3
          /\ TimesResolved(BaseFirst(e)[3]) = 1

\* The key/value pairs of a tree.
RECURSIVE KeyValues(_)
KeyValues(n) ==
    (IF n.type = "KeyValueExpr" THEN {n} ELSE {})
    \cup UNION {KeyValues(n.kids[i]) : i \in DOMAIN n.kids}

\* The positions of the identifiers of a tree.
RECURSIVE IdentsOf(_)
IdentsOf(n) ==
    (IF n.type = "Ident" THEN {n.pos} ELSE {})
    \cup UNION {IdentsOf(n.kids[i]) : i \in DOMAIN n.kids}

\* C14: no identifier or selector of the key of a key/value pair is handed
\* to the resolver or to the callback; in a file without import to ".", once
\* the walk has returned, the occurrences of the value have been resolved,
\* base first, each once.
C14_KeySkippedValueVisited ==
    \A k \in 1..fileIdx : \A kv \in KeyValues(files[k]) :
        /\ \A p \in IdentsOf(kv.kids[1]) :
              /\ TimesResolved(p) = 0
              /\ \A c \in 1..Len(calls) : calls[c].info.pos # p
        /\ (Walked(k) /\ ~Occurrences(files[k]).dot) =>
              \A j \in 1..Len(BaseFirst(kv.kids[2])) : TimesResolved(BaseFirst(kv.kids[2])[j]) = 1

\* The walk of a file with a key/value pair has returned, the value has been
\* resolved and reported.
C14_Witness ==
    /\ walkPc = "exit"
    /\ \E k \in 1..fileIdx : \E kv \in KeyValues(files[k]) :
          /\ IdentsOf(kv.kids[1]) # {}
          /\ \E c \in 1..Len(calls) : calls[c].info.expr = kv.kids[2]

\* C15: every occurrence handed to the callback has a position, every one
\* that is not an occurrence of a predeclared object has a declaration
\* position, and the program does not panic.
C15_PositionsNeverZero ==
    /\ walkPc # "panic"
    /\ \A i \in 1..Len(calls) :
          /\ calls[i].info.pos # NoPos
          /\ ~InUniverse(calls[i].info.referObj) => DeclPos(calls[i].info.referObj) # NoPos

C17_VerboseOnlyDiagnostics ==
    visitf = "visitPrint" =>
        \A i \in 1..Len(calls) :
            LinesOf(i) = visitPrintVerbose(calls[i].info, kindsRes.mask, FALSE).lines

\* C18: under fair scheduling, and every call of types.DefaultImporter
\* returning, a call of ctxt.importer returns, the mutex released at its
\* return; a caller is any goroutine, the resolver of a walk in progress
\* included, which calls ctxt.importer after main's own call has returned.
C18_ImporterReturns ==
    \A c \in Callers :
        (callerPc[c] # "idle") ~> (callerPc[c] = "idle" /\ mu = 0)

\* Every caller has returned from a call, one of them after it waited for
\* the mutex or made a second call, and the mutex is free.
C18_Witness ==
    /\ mu = 0
    /\ callsMade = MaxCalls
    /\ \A c \in Callers : callerPc[c] = "idle" /\ Len(callerRet[c]) >= 1

\* The tokens of a list, as a set.
TokenSet(ts) == {ts[i] : i \in DOMAIN ts}

\* The full set of the four kinds, as a mask.
FullMask == OrBit(OrBit(OrBit(OrBit(0, Con), Typ), Var), Fun)

\* C19: the mask parseKindMask returns is the mask it returns for any other
\* list of the same tokens, permuted or with tokens repeated, and a default
\* list of allKinds, in whatever order, parses without error to the mask of
\* the four kinds.
C19_MaskOfTokenSet ==
    kindsRes # NotYet =>
        /\ \A ts \in TokenLists \cup KindOrders :
               TokenSet(ts) = TokenSet(kindTokens) =>
                   parseKindMask(Join(ts, ",")).mask = kindsRes.mask
        /\ kindsArg \in allKinds => kindsRes.err = NoErr /\ kindsRes.mask = FullMask

\* A default list in an order that starts with func has been parsed.
C19_Witness ==
    /\ kindsRes # NotYet
    /\ kindsArg \in allKinds
    /\ kindTokens[1] = StrFunc
    /\ kindTokens[4] = StrConst

====
